---- MODULE Spec2Model ----
(***************************************************************************)
(* Tic-tac-toe desktop application: the Game state machine of              *)
(* game_logic.py (board, turn, winner, move count, undo history) and the   *)
(* event handlers of gui.py that drive it (moves, undo, new game, score,   *)
(* the _safe exception boundary).                                          *)
(*                                                                         *)
(* Python None is the string "None"; the empty cell is the empty string,   *)
(* as in the source.  A Game object is the record G; the Game methods are  *)
(* operators from a Game record (and arguments) to the Game record after   *)
(* the call and the value returned (or the exception raised).              *)
(***************************************************************************)
EXTENDS Integers, Sequences, FiniteSets, TLC

\* ---------------------------------------------------------------- bounds
\* make_move is called with row indices up to MaxArg (0..2 are in range)
MaxArg == 3
\* the first two moves of a game are made on the first OpeningCells cells
\* (row-major order); every later move may be made on any cell
OpeningCells == 2
\* the score counters are capped: x_wins + o_wins + draws <= MaxCounted
MaxCounted == 1
\* number of keys ("1" .. "9", in this order) pressed in SpecSafe
SafeKeys == 5
\* the score counters are capped in SpecReplay: x_wins + o_wins + draws <= MaxReplays
MaxReplays == 2
\* the canvas is 1 or MaxCanvas pixels wide and high
MaxCanvas == 100

\* ------------------------------------------------------------- constants
Idx == 0..2
Players == {"X", "O"}
NoneV == "None"
NoLine == <<>>

VARIABLES
  board,            \* Game.board[r][c] in {"", "X", "O"}
  current,          \* Game.current
  winner,           \* Game.winner: "None", "X", "O", "Draw"
  move_count,       \* Game.move_count
  history,          \* Game.history: sequence of <<r, c, player>>
  ret,              \* value returned (or exception raised) by the last Game call
  ok_calls,         \* SpecPlay: make_move calls that returned True since reset
  started_by,         \* the argument of the last reset call
  x_wins,           \* score.x_wins
  o_wins,           \* score.o_wins
  draws,            \* score.draws
  game_counted,     \* the game on the board has already been added to the score
  exc,              \* last GUI event: "none", "caught" (by _safe), "escaped"
  logged,           \* entries appended to LOG_FILE by the last GUI event
  shown,            \* how the last GUI event surfaced its error: "none", "error", "stderr"
  log_writable,     \* environment: LOG_FILE can be appended to
  dialog_available, \* environment: messagebox dialogs can be shown
  autosave_score,   \* settings.autosave_score
  score_class,      \* the class of the score object: "models" or "config"
  score_file,       \* SCORE_FILE: NoFile or the record <<x_wins, o_wins, draws>> in it
  settings_file,    \* SETTINGS_FILE: NoFile or <<the autosave_score value in it>>
  score_writable,   \* environment: SCORE_FILE can be written
  settings_writable, \* environment: SETTINGS_FILE can be written
  cell_bbox,        \* cell_bbox: (r, c) -> <<x0, y0, x1, y1>>
  show_highlight,   \* settings.show_highlight
  _blink_job,       \* "None", or the id of a timer that is "pending" or has "fired"
  _blink_state,     \* _blink_state
  blink_timers      \* Tk: number of pending after() callbacks of _blink_cycle

gameVars == <<board, current, winner, move_count, history>>
scoreVars == <<x_wins, o_wins, draws, game_counted>>
uiVars == <<exc, logged, shown>>
envVars == <<log_writable, dialog_available>>
fileVars == <<autosave_score, score_class, score_file, settings_file,
              score_writable, settings_writable>>
canvasVars == <<cell_bbox>>
blinkVars == <<show_highlight, _blink_job, _blink_state, blink_timers>>
guiVars == <<scoreVars, uiVars, envVars, fileVars, canvasVars, blinkVars>>
vars == <<gameVars, ret, ok_calls, started_by, guiVars>>

\* the Game object
G == [board |-> board, current |-> current, winner |-> winner,
      move_count |-> move_count, history |-> history]

EmptyBoard == [r \in Idx |-> [c \in Idx |-> ""]]

\* ------------------------------------------------------------ game_logic
_check_winner_after_move_no_anti(b, last_r, last_c) ==
  LET p == b[last_r][last_c] IN
    \/ \A c \in Idx : b[last_r][c] = p
    \/ \A r \in Idx : b[r][last_c] = p
    \/ last_r = last_c /\ \A i \in Idx : b[i][i] = p

_check_winner_after_move(b, last_r, last_c) ==
  LET p == b[last_r][last_c] IN
    \/ \A c \in Idx : b[last_r][c] = p
    \/ \A r \in Idx : b[r][last_c] = p
    \/ last_r = last_c /\ \A i \in Idx : b[i][i] = p
    \/ last_r + last_c = 2 /\ \A i \in Idx : b[i][2 - i] = p

\* the 8 lines in the order get_winning_line builds them
Lines ==
  [r \in 1..3 |-> [k \in 1..3 |-> <<r - 1, k - 1>>]]
  \o [c \in 1..3 |-> [k \in 1..3 |-> <<k - 1, c - 1>>]]
  \o << <<<<0, 0>>, <<1, 1>>, <<2, 2>>>>, <<<<0, 2>>, <<1, 1>>, <<2, 0>>>> >>

get_winning_line_any_equal(b) ==
  LET hit == {i \in 1..Len(Lines) :
                LET v0 == b[Lines[i][1][1]][Lines[i][1][2]] IN
                  /\ b[Lines[i][2][1]][Lines[i][2][2]] = v0
                  /\ b[Lines[i][3][1]][Lines[i][3][2]] = v0}
  IN IF hit = {} THEN NoLine
     ELSE Lines[CHOOSE i \in hit : \A j \in hit : i <= j]

get_winning_line(b) ==
  LET hit == {i \in 1..Len(Lines) :
                LET v0 == b[Lines[i][1][1]][Lines[i][1][2]] IN
                  /\ v0 # ""
                  /\ b[Lines[i][2][1]][Lines[i][2][2]] = v0
                  /\ b[Lines[i][3][1]][Lines[i][3][2]] = v0}
  IN IF hit = {} THEN NoLine
     ELSE Lines[CHOOSE i \in hit : \A j \in hit : i <= j]

reset_keeps_history(g, starting) ==
  [board |-> EmptyBoard, current |-> starting, winner |-> NoneV,
   move_count |-> 0, history |-> g.history]

reset(g, starting) ==
  [board |-> EmptyBoard, current |-> starting, winner |-> NoneV,
   move_count |-> 0, history |-> <<>>]

make_move_overwrites(g, r, c) ==
  IF g.winner # NoneV THEN [g |-> g, ret |-> "False"]
  ELSE IF ~(r \in Idx /\ c \in Idx) THEN [g |-> g, ret |-> "ValueError"]
  ELSE LET b == [g.board EXCEPT ![r][c] = g.current]
           n == g.move_count + 1
           h == Append(g.history, <<r, c, g.current>>)
       IN IF _check_winner_after_move(b, r, c)
            THEN [g |-> [board |-> b, current |-> g.current, winner |-> g.current,
                         move_count |-> n, history |-> h], ret |-> "True"]
          ELSE IF n = 9
            THEN [g |-> [board |-> b, current |-> g.current, winner |-> "Draw",
                         move_count |-> n, history |-> h], ret |-> "True"]
          ELSE [g |-> [board |-> b, current |-> IF g.current = "X" THEN "O" ELSE "X",
                       winner |-> NoneV, move_count |-> n, history |-> h],
                ret |-> "True"]

make_move_no_draw(g, r, c) ==
  IF g.winner # NoneV THEN [g |-> g, ret |-> "False"]
  ELSE IF ~(r \in Idx /\ c \in Idx) THEN [g |-> g, ret |-> "ValueError"]
  ELSE IF g.board[r][c] # "" THEN [g |-> g, ret |-> "False"]
  ELSE LET b == [g.board EXCEPT ![r][c] = g.current]
           n == g.move_count + 1
           h == Append(g.history, <<r, c, g.current>>)
       IN IF _check_winner_after_move(b, r, c)
            THEN [g |-> [board |-> b, current |-> g.current, winner |-> g.current,
                         move_count |-> n, history |-> h], ret |-> "True"]
          ELSE [g |-> [board |-> b, current |-> IF g.current = "X" THEN "O" ELSE "X",
                       winner |-> NoneV, move_count |-> n, history |-> h],
                ret |-> "True"]

make_move_after_end(g, r, c) ==
  IF ~(r \in Idx /\ c \in Idx) THEN [g |-> g, ret |-> "ValueError"]
  ELSE IF g.board[r][c] # "" THEN [g |-> g, ret |-> "False"]
  ELSE LET b == [g.board EXCEPT ![r][c] = g.current]
           n == g.move_count + 1
           h == Append(g.history, <<r, c, g.current>>)
       IN IF _check_winner_after_move(b, r, c)
            THEN [g |-> [board |-> b, current |-> g.current, winner |-> g.current,
                         move_count |-> n, history |-> h], ret |-> "True"]
          ELSE IF n = 9
            THEN [g |-> [board |-> b, current |-> g.current, winner |-> "Draw",
                         move_count |-> n, history |-> h], ret |-> "True"]
          ELSE [g |-> [board |-> b, current |-> IF g.current = "X" THEN "O" ELSE "X",
                       winner |-> NoneV, move_count |-> n, history |-> h],
                ret |-> "True"]

make_move_draw_first(g, r, c) ==
  IF g.winner # NoneV THEN [g |-> g, ret |-> "False"]
  ELSE IF ~(r \in Idx /\ c \in Idx) THEN [g |-> g, ret |-> "ValueError"]
  ELSE IF g.board[r][c] # "" THEN [g |-> g, ret |-> "False"]
  ELSE LET b == [g.board EXCEPT ![r][c] = g.current]
           n == g.move_count + 1
           h == Append(g.history, <<r, c, g.current>>)
       IN IF n = 9
            THEN [g |-> [board |-> b, current |-> g.current, winner |-> "Draw",
                         move_count |-> n, history |-> h], ret |-> "True"]
          ELSE IF _check_winner_after_move(b, r, c)
            THEN [g |-> [board |-> b, current |-> g.current, winner |-> g.current,
                         move_count |-> n, history |-> h], ret |-> "True"]
          ELSE [g |-> [board |-> b, current |-> IF g.current = "X" THEN "O" ELSE "X",
                       winner |-> NoneV, move_count |-> n, history |-> h],
                ret |-> "True"]

make_move_flips_on_win(g, r, c) ==
  IF g.winner # NoneV THEN [g |-> g, ret |-> "False"]
  ELSE IF ~(r \in Idx /\ c \in Idx) THEN [g |-> g, ret |-> "ValueError"]
  ELSE IF g.board[r][c] # "" THEN [g |-> g, ret |-> "False"]
  ELSE LET b == [g.board EXCEPT ![r][c] = g.current]
           n == g.move_count + 1
           h == Append(g.history, <<r, c, g.current>>)
       IN IF _check_winner_after_move(b, r, c)
            THEN [g |-> [board |-> b, current |-> IF g.current = "X" THEN "O" ELSE "X",
                         winner |-> g.current,
                         move_count |-> n, history |-> h], ret |-> "True"]
          ELSE IF n = 9
            THEN [g |-> [board |-> b, current |-> g.current, winner |-> "Draw",
                         move_count |-> n, history |-> h], ret |-> "True"]
          ELSE [g |-> [board |-> b, current |-> IF g.current = "X" THEN "O" ELSE "X",
                       winner |-> NoneV, move_count |-> n, history |-> h],
                ret |-> "True"]

make_move_range_first(g, r, c) ==
  IF ~(r \in Idx /\ c \in Idx) THEN [g |-> g, ret |-> "ValueError"]
  ELSE IF g.winner # NoneV THEN [g |-> g, ret |-> "False"]
  ELSE IF g.board[r][c] # "" THEN [g |-> g, ret |-> "False"]
  ELSE LET b == [g.board EXCEPT ![r][c] = g.current]
           n == g.move_count + 1
           h == Append(g.history, <<r, c, g.current>>)
       IN IF _check_winner_after_move(b, r, c)
            THEN [g |-> [board |-> b, current |-> g.current, winner |-> g.current,
                         move_count |-> n, history |-> h], ret |-> "True"]
          ELSE IF n = 9
            THEN [g |-> [board |-> b, current |-> g.current, winner |-> "Draw",
                         move_count |-> n, history |-> h], ret |-> "True"]
          ELSE [g |-> [board |-> b, current |-> IF g.current = "X" THEN "O" ELSE "X",
                       winner |-> NoneV, move_count |-> n, history |-> h],
                ret |-> "True"]

\* result: the Game after the call and "True", "False" or "ValueError"
make_move(g, r, c) ==
  IF g.winner # NoneV THEN [g |-> g, ret |-> "False"]
  ELSE IF ~(r \in Idx /\ c \in Idx) THEN [g |-> g, ret |-> "ValueError"]
  ELSE IF g.board[r][c] # "" THEN [g |-> g, ret |-> "False"]
  ELSE LET b == [g.board EXCEPT ![r][c] = g.current]
           n == g.move_count + 1
           h == Append(g.history, <<r, c, g.current>>)
       IN IF _check_winner_after_move(b, r, c)
            THEN [g |-> [board |-> b, current |-> g.current, winner |-> g.current,
                         move_count |-> n, history |-> h], ret |-> "True"]
          ELSE IF n = 9
            THEN [g |-> [board |-> b, current |-> g.current, winner |-> "Draw",
                         move_count |-> n, history |-> h], ret |-> "True"]
          ELSE [g |-> [board |-> b, current |-> IF g.current = "X" THEN "O" ELSE "X",
                       winner |-> NoneV, move_count |-> n, history |-> h],
                ret |-> "True"]

undo_keeps_winner(g) ==
  IF g.history = <<>> THEN [g |-> g, ret |-> "False"]
  ELSE LET m == g.history[Len(g.history)] IN
       [g |-> [board |-> [g.board EXCEPT ![m[1]][m[2]] = ""],
               current |-> m[3], winner |-> g.winner,
               move_count |-> g.move_count - 1,
               history |-> SubSeq(g.history, 1, Len(g.history) - 1)],
        ret |-> "True"]

undo_keeps_current(g) ==
  IF g.history = <<>> THEN [g |-> g, ret |-> "False"]
  ELSE LET m == g.history[Len(g.history)] IN
       [g |-> [board |-> [g.board EXCEPT ![m[1]][m[2]] = ""],
               current |-> g.current, winner |-> NoneV,
               move_count |-> g.move_count - 1,
               history |-> SubSeq(g.history, 1, Len(g.history) - 1)],
        ret |-> "True"]

undo_refuses_after_win(g) ==
  IF g.history = <<>> \/ g.winner \in Players THEN [g |-> g, ret |-> "False"]
  ELSE LET m == g.history[Len(g.history)] IN
       [g |-> [board |-> [g.board EXCEPT ![m[1]][m[2]] = ""],
               current |-> m[3], winner |-> NoneV,
               move_count |-> g.move_count - 1,
               history |-> SubSeq(g.history, 1, Len(g.history) - 1)],
        ret |-> "True"]

undo_keeps_count(g) ==
  IF g.history = <<>> THEN [g |-> g, ret |-> "False"]
  ELSE LET m == g.history[Len(g.history)] IN
       [g |-> [board |-> [g.board EXCEPT ![m[1]][m[2]] = ""],
               current |-> m[3], winner |-> NoneV,
               move_count |-> g.move_count,
               history |-> SubSeq(g.history, 1, Len(g.history) - 1)],
        ret |-> "True"]

undo_keeps_cell(g) ==
  IF g.history = <<>> THEN [g |-> g, ret |-> "False"]
  ELSE LET m == g.history[Len(g.history)] IN
       [g |-> [board |-> g.board,
               current |-> m[3], winner |-> NoneV,
               move_count |-> g.move_count - 1,
               history |-> SubSeq(g.history, 1, Len(g.history) - 1)],
        ret |-> "True"]

\* result: the Game after the call and "True" or "False"
undo(g) ==
  IF g.history = <<>> THEN [g |-> g, ret |-> "False"]
  ELSE LET m == g.history[Len(g.history)] IN
       [g |-> [board |-> [g.board EXCEPT ![m[1]][m[2]] = ""],
               current |-> m[3], winner |-> NoneV,
               move_count |-> g.move_count - 1,
               history |-> SubSeq(g.history, 1, Len(g.history) - 1)],
        ret |-> "True"]

\* ------------------------------------------------- calls on a Game object
SetGame(g) ==
  /\ board' = g.board
  /\ current' = g.current
  /\ winner' = g.winner
  /\ move_count' = g.move_count
  /\ history' = g.history

\* argument pairs: the 9 cells, a row index that is too large, a negative column
ArgPairs == (Idx \X Idx) \cup {<<a, 1>> : a \in 3..MaxArg} \cup {<<1, -1>>}

CellOrder == [i \in 1..9 |-> <<(i - 1) \div 3, (i - 1) % 3>>]
OpeningSet == {CellOrder[i] : i \in {j \in 1..9 : j <= OpeningCells}}
\* the calls and key presses the model enumerates for the first two moves
OpeningOK(r, c) ==
  (Len(history) < 2 /\ r \in Idx /\ c \in Idx) => <<r, c>> \in OpeningSet

Call_reset(s) ==
  /\ SetGame(reset(G, s))
  /\ ret' = "None"
  /\ started_by' = s
  /\ UNCHANGED <<ok_calls, guiVars>>

Call_make_move(r, c) ==
  LET res == make_move(G, r, c) IN
    /\ SetGame(res.g)
    /\ ret' = res.ret
    /\ UNCHANGED <<ok_calls, started_by, guiVars>>

Call_undo ==
  LET res == undo(G) IN
    /\ SetGame(res.g)
    /\ ret' = res.ret
    /\ UNCHANGED <<ok_calls, started_by, guiVars>>

\* a file that does not exist
NoFile == <<>>

\* int() of n / 3: the quotient rounded towards zero
Int3(n) == IF n >= 0 THEN n \div 3 ELSE 0 - ((0 - n) \div 3)
Max(a, b) == IF a >= b THEN a ELSE b
Min(a, b) == IF a <= b THEN a ELSE b

\* cell_bbox as _on_canvas_resize(width, height) fills it
Bboxes(width, height) ==
  LET size == Min(Max(40, width - 40), Max(40, height - 40))
      x0 == (width - size) \div 2
      y0 == (height - size) \div 2
  IN [p \in Idx \X Idx |->
        LET cx0 == Int3(3 * x0 + p[2] * size)
            cy0 == Int3(3 * y0 + p[1] * size)
        IN <<cx0, cy0, Int3(3 * cx0 + size), Int3(3 * cy0 + size)>>]

\* state after Game() and, for the GUI, after TicTacToeGUI() with default
\* settings and score and no files written yet
InitObjects ==
  /\ board = EmptyBoard
  /\ current = "X"
  /\ winner = NoneV
  /\ move_count = 0
  /\ history = <<>>
  /\ ret = "None"
  /\ ok_calls = 0
  /\ started_by = "X"
  /\ x_wins = 0 /\ o_wins = 0 /\ draws = 0
  /\ game_counted = FALSE
  /\ exc = "none" /\ logged = 0 /\ shown = "none"
  /\ log_writable = TRUE /\ dialog_available = TRUE
  /\ autosave_score = TRUE
  /\ score_file = NoFile /\ settings_file = NoFile
  /\ score_writable = TRUE /\ settings_writable = TRUE
  /\ cell_bbox = Bboxes(1, 1)
  /\ show_highlight = TRUE
  /\ _blink_job = "None" /\ _blink_state = FALSE /\ blink_timers = 0

Init == InitObjects /\ score_class = "models"

Next ==
  \/ \E s \in Players : Call_reset(s)
  \/ \E p \in ArgPairs : OpeningOK(p[1], p[2]) /\ Call_make_move(p[1], p[2])
  \/ Call_undo

\* any sequence of reset, make_move and undo calls on a Game
Spec == Init /\ [][Next]_vars

\* ------------------------------- make_move calls only, counted (no undo)
Play_reset(s) ==
  /\ SetGame(reset(G, s))
  /\ ret' = "None"
  /\ ok_calls' = 0
  /\ started_by' = s
  /\ UNCHANGED guiVars

Play_make_move(r, c) ==
  LET res == make_move(G, r, c) IN
    /\ SetGame(res.g)
    /\ ret' = res.ret
    /\ ok_calls' = IF res.ret = "True" THEN ok_calls + 1 ELSE ok_calls
    /\ UNCHANGED <<started_by, guiVars>>

NextPlay ==
  \/ \E s \in Players : Play_reset(s)
  \/ \E p \in ArgPairs : OpeningOK(p[1], p[2]) /\ Play_make_move(p[1], p[2])

\* any sequence of reset and make_move calls on a Game, without undo
SpecPlay == Init /\ [][NextPlay]_vars

\* ------------------------------------------------------------------- gui
KeyOrder == <<"1", "2", "3", "4", "5", "6", "7", "8", "9">>
Keys == {KeyOrder[i] : i \in 1..9}
KEY_TO_CELL_one_based ==
  [k \in Keys |->
     CASE k = "1" -> <<3, 1>> [] k = "2" -> <<3, 2>> [] k = "3" -> <<3, 3>>
       [] k = "4" -> <<2, 1>> [] k = "5" -> <<2, 2>> [] k = "6" -> <<2, 3>>
       [] k = "7" -> <<1, 1>> [] k = "8" -> <<1, 2>> [] k = "9" -> <<1, 3>>]

KEY_TO_CELL ==
  [k \in Keys |->
     CASE k = "1" -> <<2, 0>> [] k = "2" -> <<2, 1>> [] k = "3" -> <<2, 2>>
       [] k = "4" -> <<1, 0>> [] k = "5" -> <<1, 1>> [] k = "6" -> <<1, 2>>
       [] k = "7" -> <<0, 0>> [] k = "8" -> <<0, 1>> [] k = "9" -> <<0, 2>>]

\* entries one log_exception call appends to LOG_FILE: a failing write is swallowed
log_exception == IF log_writable THEN 1 ELSE 0

_safe_no_catch(raised, body_logged) ==
  IF raised
    THEN /\ exc' = "escaped"
         /\ logged' = body_logged
         /\ shown' = "none"
    ELSE /\ exc' = "none"
         /\ logged' = body_logged
         /\ shown' = "none"

\* the wrapper around a handler whose body raised (or not) after the body
\* itself appended body_logged entries to the log
_safe(raised, body_logged) ==
  IF raised
    THEN /\ exc' = "caught"
         /\ logged' = body_logged + log_exception
         /\ shown' = IF dialog_available THEN "error" ELSE "stderr"
    ELSE /\ exc' = "none"
         /\ logged' = body_logged
         /\ shown' = "none"

\* Settings.save() with autosave_score = val in memory: the outcome as
\* [file: SETTINGS_FILE afterwards, logged: log entries, raised: an exception left save]
Settings_save(val) ==
  IF settings_writable
    THEN [file |-> <<val>>, logged |-> 0, raised |-> FALSE]
    ELSE [file |-> settings_file, logged |-> log_exception, raised |-> FALSE]

\* Score.save(autosave) of models.py with the counters sc in memory
Score_save_models(sc, autosave) ==
  IF ~autosave
    THEN [file |-> score_file, logged |-> 0, raised |-> FALSE]
  ELSE IF score_writable
    THEN [file |-> sc, logged |-> 0, raised |-> FALSE]
  ELSE [file |-> score_file, logged |-> log_exception, raised |-> FALSE]

\* Score.save() of config.py with the counters sc in memory
Score_save_config(sc) ==
  IF ~autosave_score
    THEN [file |-> score_file, logged |-> 0, raised |-> FALSE]
  ELSE IF score_writable
    THEN [file |-> sc, logged |-> 0, raised |-> FALSE]
  ELSE [file |-> score_file, logged |-> log_exception, raised |-> FALSE]

\* gui.py imports the score object from models, and src/models.py has no
\* binding for it: the object is of either Score class
ScoreClasses == {"models", "config"}

score_save_unguarded(sc) ==
  IF score_class = "config" /\ ~autosave_score
    THEN [file |-> score_file, logged |-> 0, raised |-> FALSE]
  ELSE IF score_writable
    THEN [file |-> sc, logged |-> 0, raised |-> FALSE]
  ELSE [file |-> score_file, logged |-> 0, raised |-> TRUE]

score_save_skips_write(sc) ==
  [file |-> score_file, logged |-> 0, raised |-> FALSE]

\* score.save() as the handlers call it: without an argument
score_save(sc) ==
  IF score_class = "config" THEN Score_save_config(sc) ELSE Score_save_models(sc, TRUE)

Counted_once(w) ==
  IF game_counted
    THEN <<x_wins, o_wins, draws>>
    ELSE <<IF w = "X" THEN x_wins + 1 ELSE x_wins,
           IF w = "O" THEN o_wins + 1 ELSE o_wins,
           IF w = "Draw" THEN draws + 1 ELSE draws>>

Counted_draw_for_both(w) ==
  <<IF w \in {"X", "Draw"} THEN x_wins + 1 ELSE x_wins,
    IF w \in {"O", "Draw"} THEN o_wins + 1 ELSE o_wins,
    IF w = "Draw" THEN draws + 1 ELSE draws>>

\* the counters after the game that ended with winner w is added to them
Counted(w) ==
  <<IF w = "X" THEN x_wins + 1 ELSE x_wins,
    IF w = "O" THEN o_wins + 1 ELSE o_wins,
    IF w = "Draw" THEN draws + 1 ELSE draws>>

SetScore(sc) == x_wins' = sc[1] /\ o_wins' = sc[2] /\ draws' = sc[3]

\* ---------------------------------------------------- gui: blink timer
\* the blink fields and the timers Tk holds for _blink_cycle
Blink == [job |-> _blink_job, state |-> _blink_state, timers |-> blink_timers]

SetBlink(b) ==
  /\ _blink_job' = b.job
  /\ _blink_state' = b.state
  /\ blink_timers' = b.timers

\* after_cancel of a timer that has fired is without effect
_stop_blink(b) ==
  IF b.job # "None"
    THEN [job |-> "None", state |-> FALSE,
          timers |-> IF b.job = "pending" THEN b.timers - 1 ELSE b.timers]
    ELSE b

_blink_cycle_keeps_running(bd, b) ==
  [job |-> "pending", state |-> ~b.state, timers |-> b.timers + 1]

\* bd: the board at the time of the call
_blink_cycle(bd, b) ==
  LET flipped == [b EXCEPT !.state = ~b.state] IN
    IF ~show_highlight THEN _stop_blink(flipped)
    ELSE IF get_winning_line(bd) = NoLine THEN _stop_blink(flipped)
    ELSE [job |-> "pending", state |-> flipped.state, timers |-> b.timers + 1]

_start_blink_unguarded(bd, b) ==
  _blink_cycle(bd, [b EXCEPT !.state = FALSE])

_start_blink(bd, b) ==
  IF b.job # "None" THEN b
  ELSE _blink_cycle(bd, [b EXCEPT !.state = FALSE])

\* tk_fail: a Tk call inside _update_ui_from_state (_redraw_board) raises;
\* _redraw_board logs the exception and raises it again
_try_make_move(r, c, tk_fail) ==
  LET res == make_move(G, r, c) IN
    /\ UNCHANGED <<ret, ok_calls, started_by, envVars, canvasVars, show_highlight>>
    /\ UNCHANGED <<autosave_score, score_class, settings_file,
                   score_writable, settings_writable>>
    /\ IF res.ret = "ValueError"
         THEN /\ UNCHANGED <<gameVars, scoreVars, score_file>>
              /\ SetBlink(Blink)
              /\ _safe(TRUE, log_exception)
       ELSE IF res.ret = "False"
         THEN /\ UNCHANGED <<gameVars, scoreVars, score_file>>
              /\ SetBlink(Blink)
              /\ _safe(FALSE, 0)
       ELSE /\ SetGame(res.g)
            /\ IF tk_fail
                 THEN /\ UNCHANGED <<scoreVars, score_file>>
                      /\ SetBlink(Blink)
                      /\ _safe(TRUE, 2 * log_exception)
               ELSE IF res.g.winner # NoneV
                 THEN LET sc == Counted(res.g.winner)
                          sv == score_save(sc)
                      IN /\ SetScore(sc)
                         /\ game_counted' = TRUE
                         /\ score_file' = sv.file
                         /\ IF sv.raised \/ ~dialog_available
                              THEN /\ _safe(TRUE, sv.logged + log_exception)
                                   /\ SetBlink(Blink)
                              ELSE /\ _safe(FALSE, sv.logged)
                                   /\ SetBlink(IF /\ show_highlight
                                                   /\ get_winning_line(res.g.board) # NoLine
                                                THEN _start_blink(res.g.board, Blink)
                                                ELSE Blink)
               ELSE /\ UNCHANGED <<scoreVars, score_file>>
                    /\ SetBlink(Blink)
                    /\ _safe(FALSE, 0)

new_game_keeps_board(tk_fail) ==
  /\ SetGame([reset(G, "X") EXCEPT !.board = board])
  /\ game_counted' = FALSE
  /\ started_by' = "X"
  /\ UNCHANGED <<x_wins, o_wins, draws, ret, ok_calls, envVars, fileVars>>
  /\ UNCHANGED <<canvasVars, show_highlight>>
  /\ SetBlink(_stop_blink(Blink))
  /\ IF tk_fail THEN _safe(TRUE, log_exception) ELSE _safe(FALSE, 0)

new_game(tk_fail) ==
  /\ SetGame(reset(G, "X"))
  /\ game_counted' = FALSE
  /\ started_by' = "X"
  /\ UNCHANGED <<x_wins, o_wins, draws, ret, ok_calls, envVars, fileVars>>
  /\ UNCHANGED <<canvasVars, show_highlight>>
  /\ SetBlink(_stop_blink(Blink))
  /\ IF tk_fail THEN _safe(TRUE, log_exception) ELSE _safe(FALSE, 0)

do_undo_reverts_score(tk_fail) ==
  LET res == undo(G) IN
    /\ UNCHANGED <<ret, ok_calls, started_by, envVars, fileVars, game_counted>>
    /\ UNCHANGED <<canvasVars, blinkVars>>
    /\ IF res.ret = "False"
         THEN /\ UNCHANGED <<gameVars, x_wins, o_wins, draws>>
              /\ _safe(FALSE, 0)
         ELSE /\ SetGame(res.g)
              /\ x_wins' = IF winner = "X" /\ x_wins > 0 THEN x_wins - 1 ELSE x_wins
              /\ o_wins' = IF winner = "O" /\ o_wins > 0 THEN o_wins - 1 ELSE o_wins
              /\ draws' = IF winner = "Draw" /\ draws > 0 THEN draws - 1 ELSE draws
              /\ IF tk_fail THEN _safe(TRUE, log_exception) ELSE _safe(FALSE, 0)

do_undo(tk_fail) ==
  LET res == undo(G) IN
    /\ UNCHANGED <<ret, ok_calls, started_by, envVars, fileVars, scoreVars>>
    /\ UNCHANGED <<canvasVars, blinkVars>>
    /\ IF res.ret = "False"
         THEN /\ UNCHANGED gameVars
              /\ _safe(FALSE, 0)
         ELSE /\ SetGame(res.g)
              /\ IF tk_fail THEN _safe(TRUE, log_exception) ELSE _safe(FALSE, 0)

\* a game-ending move is enumerated only while the score has room for it
ScoreRoom(r, c) ==
  make_move(G, r, c).g.winner # NoneV => x_wins + o_wins + draws < MaxCounted

\* key k of KEY_TO_CELL is pressed
KeyPress(k, tk_fail) ==
  LET cell == KEY_TO_CELL[k] IN
    /\ ScoreRoom(cell[1], cell[2])
    /\ _try_make_move(cell[1], cell[2], tk_fail)

NextGUI ==
  \/ \E k \in Keys : OpeningOK(KEY_TO_CELL[k][1], KEY_TO_CELL[k][2]) /\ KeyPress(k, FALSE)
  \/ do_undo(FALSE)
  \/ new_game(FALSE)

\* the GUI driven by key presses, undo and new game; every Tk call succeeds
SpecGUI == Init /\ [][NextGUI]_vars

\* the log file becomes (un)writable, dialogs become (un)available
EnvChange ==
  /\ \E lw \in BOOLEAN, da \in BOOLEAN :
       /\ <<lw, da>> # <<log_writable, dialog_available>>
       /\ log_writable' = lw
       /\ dialog_available' = da
  /\ exc' = "none" /\ logged' = 0 /\ shown' = "none"
  /\ UNCHANGED <<gameVars, ret, ok_calls, started_by, scoreVars, fileVars>>
  /\ UNCHANGED <<canvasVars, blinkVars>>

SafeKeySet == {KeyOrder[i] : i \in {j \in 1..9 : j <= SafeKeys}}

NextSafe ==
  \/ \E k \in SafeKeySet, f \in BOOLEAN : KeyPress(k, f)
  \/ \E f \in BOOLEAN : do_undo(f)
  \/ \E f \in BOOLEAN : new_game(f)
  \/ EnvChange

\* the GUI where Tk calls, dialogs and the log write can fail
SpecSafe == Init /\ [][NextSafe]_vars

\* ------------------------------------------------------------ gui: canvas
\* no cell_bbox entry holds the point
NoCell == <<>>

\* the cells in the order cell_bbox.items() gives them
BboxOrder == [i \in 1..9 |-> <<(i - 1) \div 3, (i - 1) % 3>>]

\* the cell _on_canvas_click finds for the point (x, y): the first whose box holds it
ClickCell(bb, x, y) ==
  LET hit == {i \in 1..9 :
                LET b == bb[BboxOrder[i]] IN
                  b[1] <= x /\ x <= b[3] /\ b[2] <= y /\ y <= b[4]}
  IN IF hit = {} THEN NoCell
     ELSE BboxOrder[CHOOSE i \in hit : \A j \in hit : i <= j]

_on_canvas_click(x, y, tk_fail) ==
  LET cell == ClickCell(cell_bbox, x, y) IN
    IF cell = NoCell
      THEN /\ _safe(FALSE, 0)
           /\ UNCHANGED <<gameVars, ret, ok_calls, started_by, scoreVars, envVars>>
           /\ UNCHANGED <<fileVars, canvasVars, blinkVars>>
      ELSE _try_make_move(cell[1], cell[2], tk_fail)

_on_canvas_resize(width, height) ==
  /\ cell_bbox' = Bboxes(width, height)
  /\ _safe(FALSE, 0)
  /\ UNCHANGED <<gameVars, ret, ok_calls, started_by, scoreVars, envVars>>
  /\ UNCHANGED <<fileVars, blinkVars>>

\* the widths and heights of <Configure> events, the coordinates of clicks
CanvasSizes == {1, MaxCanvas}
ClickCoords == {7 * i - 21 : i \in 0..((MaxCanvas + 21) \div 7)}

\* ------------------------------------------------- gui: score and settings
\* yes: the answer to the askyesno dialog
reset_score(yes) ==
  /\ UNCHANGED <<gameVars, ret, ok_calls, started_by, game_counted, envVars>>
  /\ UNCHANGED <<canvasVars, blinkVars>>
  /\ UNCHANGED <<autosave_score, score_class, settings_file,
                 score_writable, settings_writable>>
  /\ IF ~dialog_available
       THEN /\ UNCHANGED <<x_wins, o_wins, draws, score_file>>
            /\ _safe(TRUE, 0)
     ELSE IF yes
       THEN LET sv == score_save(<<0, 0, 0>>)
            IN /\ SetScore(<<0, 0, 0>>)
               /\ score_file' = sv.file
               /\ _safe(sv.raised, sv.logged)
     ELSE /\ UNCHANGED <<x_wins, o_wins, draws, score_file>>
          /\ _safe(FALSE, 0)

\* the files offered to load_score_from: vals are the values under the keys
\* x_wins, o_wins, draws, and the first `good` of them convert with int();
\* good = 3 is a well-formed record, good = 0 also stands for a file that
\* cannot be opened or parsed
LoadFiles ==
  {f \in [vals : (0..MaxCounted) \X (0..MaxCounted) \X (0..MaxCounted), good : 0..3] :
     \A i \in 1..3 : i > f.good => f.vals[i] = 0}

\* the counters after load_score_from read file f
Loaded(f) ==
  <<IF f.good >= 1 THEN f.vals[1] ELSE x_wins,
    IF f.good >= 2 THEN f.vals[2] ELSE o_wins,
    IF f.good >= 3 THEN f.vals[3] ELSE draws>>

\* picked: a path was chosen in the askopenfilename dialog; f: the file there
load_score_from(picked, f) ==
  /\ UNCHANGED <<gameVars, ret, ok_calls, started_by, game_counted, envVars>>
  /\ UNCHANGED <<canvasVars, blinkVars>>
  /\ UNCHANGED <<autosave_score, score_class, settings_file,
                 score_writable, settings_writable>>
  /\ IF ~dialog_available
       THEN /\ UNCHANGED <<x_wins, o_wins, draws, score_file>>
            /\ _safe(TRUE, 0)
     ELSE IF ~picked
       THEN /\ UNCHANGED <<x_wins, o_wins, draws, score_file>>
            /\ _safe(FALSE, 0)
     ELSE IF f.good = 3
       THEN LET sv == score_save(Loaded(f))
            IN /\ SetScore(Loaded(f))
               /\ score_file' = sv.file
               /\ IF sv.raised
                    THEN /\ exc' = "none"
                         /\ logged' = sv.logged + log_exception
                         /\ shown' = "error"
                    ELSE _safe(FALSE, sv.logged)
     ELSE /\ SetScore(Loaded(f))
          /\ UNCHANGED score_file
          /\ exc' = "none"
          /\ logged' = log_exception
          /\ shown' = "error"

toggle_autosave ==
  LET sv == Settings_save(~autosave_score)
  IN /\ autosave_score' = ~autosave_score
     /\ settings_file' = sv.file
     /\ _safe(sv.raised, sv.logged)
     /\ UNCHANGED <<gameVars, ret, ok_calls, started_by, scoreVars, envVars>>
     /\ UNCHANGED <<canvasVars, blinkVars>>
     /\ UNCHANGED <<score_class, score_file, score_writable, settings_writable>>

\* SCORE_FILE or SETTINGS_FILE becomes (un)writable
FilesChange ==
  /\ \E sw \in BOOLEAN, tw \in BOOLEAN :
       /\ <<sw, tw>> # <<score_writable, settings_writable>>
       /\ score_writable' = sw
       /\ settings_writable' = tw
  /\ exc' = "none" /\ logged' = 0 /\ shown' = "none"
  /\ UNCHANGED <<gameVars, ret, ok_calls, started_by, scoreVars, envVars>>
  /\ UNCHANGED <<canvasVars, blinkVars>>
  /\ UNCHANGED <<autosave_score, score_class, score_file, settings_file>>

\* key sequences of whole games: X wins, O wins, a draw
XWinScript == <<"7", "4", "8", "5", "9">>
OWinScript == <<"1", "7", "2", "8", "6", "9">>
DrawScript == <<"7", "8", "9", "5", "4", "6", "2", "1", "3">>
Scripts == {XWinScript, OWinScript, DrawScript}
SaveScripts == {XWinScript}

\* the moves on the board are the first keys of script s
Played(s) ==
  /\ Len(history) <= Len(s)
  /\ \A i \in 1..Len(history) :
       KEY_TO_CELL[s[i]] = <<history[i][1], history[i][2]>>

\* a key press that makes a move continues one of the scripts S
ScriptOK(S, k) ==
  make_move(G, KEY_TO_CELL[k][1], KEY_TO_CELL[k][2]).ret = "True"
    => \E s \in S : /\ Played(s)
                    /\ Len(history) < Len(s)
                    /\ s[Len(history) + 1] = k

\* a load is enumerated only while the loaded score is within the cap
LoadRoom(f) == Loaded(f)[1] + Loaded(f)[2] + Loaded(f)[3] <= MaxCounted

InitSave == InitObjects /\ score_class \in ScoreClasses

NextSave ==
  \/ \E k \in Keys : ScriptOK(SaveScripts, k) /\ KeyPress(k, FALSE)
  \/ do_undo(FALSE)
  \/ new_game(FALSE)
  \/ \E yes \in BOOLEAN : reset_score(yes)
  \/ \E f \in LoadFiles : LoadRoom(f) /\ load_score_from(TRUE, f)
  \/ load_score_from(FALSE, [vals |-> <<0, 0, 0>>, good |-> 0])
  \/ toggle_autosave

\* the GUI with the score and settings files, both writable; games follow
\* SaveScripts
SpecSave == InitSave /\ [][NextSave]_vars

\* the well-formed files with x_wins only offered to load_score_from in SpecFail
FailLoadFiles == {f \in LoadFiles : f.good = 3 /\ f.vals[2] = 0 /\ f.vals[3] = 0}

NextFail ==
  \/ \E k \in Keys : ScriptOK(SaveScripts, k) /\ KeyPress(k, FALSE)
  \/ new_game(FALSE)
  \/ \E yes \in BOOLEAN : reset_score(yes)
  \/ \E f \in FailLoadFiles : load_score_from(TRUE, f)
  \/ toggle_autosave
  \/ FilesChange

\* the GUI with a score file and a settings file that can become unwritable
SpecFail == Init /\ [][NextFail]_vars

\* a game-ending move is enumerated only while the score has room for it
ReplayRoom(r, c) ==
  make_move(G, r, c).g.winner # NoneV => x_wins + o_wins + draws < MaxReplays

NextReplay ==
  \/ \E k \in Keys :
       /\ ScriptOK(Scripts, k)
       /\ ReplayRoom(KEY_TO_CELL[k][1], KEY_TO_CELL[k][2])
       /\ _try_make_move(KEY_TO_CELL[k][1], KEY_TO_CELL[k][2], FALSE)
  \/ do_undo(FALSE)

\* one game, never restarted: moves of Scripts and undo
SpecReplay == Init /\ [][NextReplay]_vars

\* the move a click at (x, y) makes continues one of the scripts S
ClickOK(S, x, y) ==
  LET cell == ClickCell(cell_bbox, x, y) IN
    (cell # NoCell /\ make_move(G, cell[1], cell[2]).ret = "True")
      => /\ \E k \in Keys : KEY_TO_CELL[k] = cell /\ ScriptOK(S, k)
         /\ ScoreRoom(cell[1], cell[2])

NextClick ==
  \/ \E x \in ClickCoords, y \in ClickCoords :
       ClickOK(Scripts, x, y) /\ _on_canvas_click(x, y, FALSE)
  \/ \E k \in Keys : ScriptOK(Scripts, k) /\ KeyPress(k, FALSE)
  \/ \E w \in CanvasSizes, h \in CanvasSizes : _on_canvas_resize(w, h)
  \/ do_undo(FALSE)
  \/ new_game(FALSE)

\* the GUI driven by clicks, key presses, canvas resizes, undo and new game
SpecClick == Init /\ [][NextClick]_vars

\* --------------------------------------------------- gui: blink handlers
toggle_highlight ==
  LET sv == Settings_save(autosave_score)
  IN /\ show_highlight' = ~show_highlight
     /\ settings_file' = sv.file
     /\ _safe(sv.raised, sv.logged)
     /\ UNCHANGED <<gameVars, ret, ok_calls, started_by, scoreVars, envVars>>
     /\ UNCHANGED <<autosave_score, score_class, score_file,
                    score_writable, settings_writable>>
     /\ UNCHANGED <<canvasVars, _blink_job, _blink_state, blink_timers>>

\* Tk runs a pending after() callback of _blink_cycle: the one _blink_job
\* names, or one it no longer names
BlinkFire ==
  /\ blink_timers > 0
  /\ \E named \in {n \in BOOLEAN :
                      IF n THEN _blink_job = "pending"
                      ELSE blink_timers > (IF _blink_job = "pending" THEN 1 ELSE 0)} :
       SetBlink(_blink_cycle(board,
                             [job |-> IF named THEN "fired" ELSE _blink_job,
                              state |-> _blink_state,
                              timers |-> blink_timers - 1]))
  /\ UNCHANGED <<gameVars, ret, ok_calls, started_by, scoreVars, uiVars, envVars>>
  /\ UNCHANGED <<fileVars, canvasVars, show_highlight>>

NextBlink ==
  \/ \E k \in Keys :
       /\ ScriptOK(Scripts, k)
       /\ ReplayRoom(KEY_TO_CELL[k][1], KEY_TO_CELL[k][2])
       /\ _try_make_move(KEY_TO_CELL[k][1], KEY_TO_CELL[k][2], FALSE)
  \/ do_undo(FALSE)
  \/ new_game(FALSE)
  \/ toggle_highlight
  \/ BlinkFire

\* the GUI with the blink timer: moves of Scripts, undo, new game, the
\* highlight switch and the timer callback
SpecBlink == Init /\ [][NextBlink]_vars

\* the Tk main loop runs a pending timer callback in the end
SpecBlinkFair == SpecBlink /\ WF_vars(BlinkFire)

\* ------------------------------------------------------ claims on the Game
\* the 8 lines of the glossary: 3 rows, 3 columns, 2 diagonals, as sets of cells
AllLines ==
  {{<<r, c>> : c \in Idx} : r \in Idx} \cup {{<<r, c>> : r \in Idx} : c \in Idx}
  \cup {{<<i, i>> : i \in Idx}, {<<i, 2 - i>> : i \in Idx}}
HasLine(b, s) == \E L \in AllLines : \A p \in L : b[p[1]][p[2]] = s
Full(b) == \A r \in Idx, c \in Idx : b[r][c] # ""

\* C1: in every reachable state winner is X or O if and only if some row,
\* column or diagonal holds three equal non-empty symbols, and then winner
\* is the symbol on that line.
C1_WinnerIffLine ==
  /\ winner \in Players <=> \E s \in Players : HasLine(board, s)
  /\ \A s \in Players : HasLine(board, s) => winner = s
C1_Witness == winner = "O" /\ HasLine(board, "O") /\ ret = "True"

\* C2: in every reachable state winner is set (not None) if and only if a
\* line of three matching non-empty symbols exists or the board is full.
C2_WinnerSetIffLineOrFull ==
  winner # NoneV <=> ((\E s \in Players : HasLine(board, s)) \/ Full(board))
C2_Witness ==
  winner = "Draw" /\ Full(board) /\ ~(\E s \in Players : HasLine(board, s))

\* C3: make_move with in-range r, c on an occupied cell, or on any cell once
\* winner is set, returns False and leaves board, current, winner, move_count
\* and history unchanged.
C3_RejectedMoveIsNoOp ==
  \A r \in Idx, c \in Idx :
    (board[r][c] # "" \/ winner # NoneV)
      => make_move(G, r, c) = [g |-> G, ret |-> "False"]
C3_Witness == ret = "False" /\ winner = NoneV /\ move_count > 0

\* C4: whenever make_move(r, c) returns True, an immediately following undo
\* returns True and restores board, current, winner, move_count and history
\* to their values before the move, also when the move ended the game.
C4_UndoInvertsMove ==
  \A r \in Idx, c \in Idx :
    LET res == make_move(G, r, c) IN
      res.ret = "True" => undo(res.g) = [g |-> G, ret |-> "True"]
C4_Witness == ret = "True" /\ winner = "Draw" /\ move_count = 9

\* C6: after a successful make_move(r, c) on a board without a completed
\* line, the 4-check win test is true exactly when the scan of all 8 lines
\* finds three equal non-empty symbols.
C6_FourChecksEqualEightLines ==
  (winner = NoneV /\ get_winning_line(board) = NoLine) =>
    \A r \in Idx, c \in Idx :
      LET res == make_move(G, r, c) IN
        res.ret = "True" =>
          (_check_winner_after_move(res.g.board, r, c)
             <=> get_winning_line(res.g.board) # NoLine)
C6_Witness ==
  ret = "True" /\ winner \in Players /\ get_winning_line(board) = Lines[8]

\* C8: every cell holds "", X or O; a make_move call changes no cell or
\* exactly the cell (r, c), and that only if the cell was empty and winner
\* was None, writing the symbol of the current player; a call that returns
\* True writes its cell.
ChangedCells(b1, b2) == {p \in Idx \X Idx : b1[p[1]][p[2]] # b2[p[1]][p[2]]}
C8_BoardOnlyByValidMoves ==
  /\ \A r \in Idx, c \in Idx : board[r][c] \in {"", "X", "O"}
  /\ \A p \in ArgPairs :
       LET res == make_move(G, p[1], p[2])
           D == ChangedCells(board, res.g.board)
       IN /\ D = {} \/ D = {p}
          /\ res.ret = "True" <=> D = {p}
          /\ D = {p} => /\ board[p[1]][p[2]] = ""
                        /\ winner = NoneV
                        /\ res.g.board[p[1]][p[2]] = current
C8_Witness == ret = "True" /\ move_count = 9 /\ Full(board)

\* C9: reset(starting) in any reachable state gives the initial state: all
\* cells empty, current = starting, winner None, move_count 0, history empty,
\* and an undo that follows returns False.
C9_ResetGivesInitialState ==
  \A s \in Players :
    LET g == reset(G, s) IN
      /\ g = [board |-> EmptyBoard, current |-> s, winner |-> NoneV,
              move_count |-> 0, history |-> <<>>]
      /\ undo(g) = [g |-> g, ret |-> "False"]
C9_Witness == ret = "None" /\ current = "O" /\ board = EmptyBoard /\ history = <<>>

\* C5: without undo, at most 9 make_move calls return True after a reset,
\* move_count never exceeds 9, and once 9 moves have succeeded or a line is
\* complete winner is set and every further make_move returns False.
C5_AtMostNineMoves ==
  /\ ok_calls <= 9
  /\ move_count <= 9
  /\ ok_calls = move_count
  /\ (ok_calls = 9 \/ \E s \in Players : HasLine(board, s)) => winner # NoneV
  /\ winner # NoneV =>
       \A p \in ArgPairs : make_move(G, p[1], p[2]) = [g |-> G, ret |-> "False"]
C5_Witness == ok_calls = 9 /\ winner = "Draw" /\ ret = "False"

\* --------------------------------------------------------- claims on the GUI
\* C7: do_undo leaves x_wins, o_wins and draws unchanged in every case, also
\* when it undoes a game-ending move whose win or draw was already counted.
C7_UndoKeepsScore ==
  [][(\E f \in BOOLEAN : do_undo(f)) => UNCHANGED <<x_wins, o_wins, draws>>]_vars
C7_Witness == game_counted /\ winner = NoneV /\ move_count = 8 /\ draws = 1

\* C10 as stated: every exception raised in a handler wrapped by _safe is
\* caught, logged to the log file and shown in a modal error dialog.
C10_AlwaysLoggedAndShown ==
  exc # "none" => (exc = "caught" /\ logged >= 1 /\ shown = "error")

\* C10, amended: every exception raised in a handler wrapped by _safe is
\* caught and never leaves the handler; it is logged if the log file can be
\* written (a failing log write is swallowed) and shown in a modal error
\* dialog if the dialog can be shown (otherwise it is printed to stderr);
\* the application keeps accepting events.
C10_CaughtLoggedWhenWritable ==
  /\ exc \in {"none", "caught"}
  /\ exc = "caught" =>
       /\ log_writable => logged >= 1
       /\ ~log_writable => logged = 0
       /\ dialog_available => shown = "error"
       /\ ~dialog_available => shown = "stderr"
       /\ ENABLED new_game(FALSE)
       /\ ENABLED do_undo(FALSE)
C10_Witness == exc = "caught" /\ logged >= 1 /\ shown = "error" /\ move_count > 0


\* ------------------------------------------- claims on score and settings
Score == <<x_wins, o_wins, draws>>
\* key k makes a move that ends the game
EndingKey(k) ==
  LET res == make_move(G, KEY_TO_CELL[k][1], KEY_TO_CELL[k][2]) IN
    res.ret = "True" /\ res.g.winner # NoneV
\* score.save() reaches the write of SCORE_FILE
SavesScore == score_class = "models" \/ autosave_score

\* C11: a handler whose write of the settings file or of the score file fails
\* completes normally: nothing is raised to _safe and no dialog is shown, the
\* settings and the score in memory have their new values, the Game is as the
\* handler left it, and the file is as it was.
C11_FailedWriteIsSilent ==
  [][/\ (~settings_writable /\ toggle_autosave)
          => /\ exc' = "none" /\ shown' = "none"
             /\ autosave_score' = ~autosave_score
             /\ settings_file' = settings_file
             /\ UNCHANGED <<gameVars, x_wins, o_wins, draws>>
     /\ \A k \in Keys :
          (~score_writable /\ SavesScore /\ EndingKey(k) /\ KeyPress(k, FALSE))
            => /\ exc' = "none" /\ shown' = "none"
               /\ \E i \in 1..3 :
                    /\ Score'[i] = Score[i] + 1
                    /\ \A j \in 1..3 : j # i => Score'[j] = Score[j]
               /\ G' = make_move(G, KEY_TO_CELL[k][1], KEY_TO_CELL[k][2]).g
               /\ score_file' = score_file
     /\ (~score_writable /\ SavesScore /\ reset_score(TRUE))
          => /\ exc' = "none" /\ shown' = "none"
             /\ Score' = <<0, 0, 0>>
             /\ score_file' = score_file
             /\ UNCHANGED gameVars
     /\ \A f \in LoadFiles :
          (~score_writable /\ SavesScore /\ f.good = 3 /\ load_score_from(TRUE, f))
            => /\ exc' = "none" /\ shown' = "none"
               /\ Score' = f.vals
               /\ score_file' = score_file
               /\ UNCHANGED gameVars]_vars
C11_Witness ==
  /\ ~score_writable /\ winner = "X" /\ x_wins = 1 /\ score_file = NoFile
  /\ exc = "none" /\ shown = "none" /\ logged = 1

C13_ScoreOnlyOnEndingMove ==
  [][\A k \in Keys :
       _try_make_move(KEY_TO_CELL[k][1], KEY_TO_CELL[k][2], FALSE) =>
         LET res == make_move(G, KEY_TO_CELL[k][1], KEY_TO_CELL[k][2]) IN
           IF res.ret = "True" /\ res.g.winner # NoneV
             THEN /\ x_wins' = x_wins + (IF res.g.winner = "X" THEN 1 ELSE 0)
                  /\ o_wins' = o_wins + (IF res.g.winner = "O" THEN 1 ELSE 0)
                  /\ draws' = draws + (IF res.g.winner = "Draw" THEN 1 ELSE 0)
                  /\ (x_wins' + o_wins' + draws') = (x_wins + o_wins + draws) + 1
             ELSE UNCHANGED <<x_wins, o_wins, draws>>]_vars
C13_Witness ==
  winner = "Draw" /\ draws = 1 /\ x_wins = 0 /\ o_wins = 0 /\ game_counted

\* C14: a game-ending move made after the counted end of the same game was
\* undone adds 1 to the score again, so that with one game started the sum
\* x_wins + o_wins + draws goes beyond 1.
C14_ReplayedEndCountsAgain ==
  [][\A k \in Keys :
       (game_counted /\ EndingKey(k)
          /\ _try_make_move(KEY_TO_CELL[k][1], KEY_TO_CELL[k][2], FALSE))
         => (x_wins' + o_wins' + draws') = (x_wins + o_wins + draws) + 1]_vars
C14_Witness ==
  game_counted /\ winner # NoneV /\ x_wins + o_wins + draws > 1

\* C18: new_game in any state leaves an empty board with X to move, winner
\* None, move_count 0 and an empty history, and leaves the score counters alone.
C18_NewGameResetsGameOnly ==
  [][(\E f \in BOOLEAN : new_game(f))
       => /\ board' = EmptyBoard /\ current' = "X" /\ winner' = NoneV
          /\ move_count' = 0 /\ history' = <<>>
          /\ UNCHANGED <<x_wins, o_wins, draws>>]_vars
C18_Witness ==
  /\ ~game_counted /\ x_wins + o_wins + draws = 1
  /\ board = EmptyBoard /\ current = "X" /\ winner = NoneV /\ history = <<>>

\* C19 as stated: while settings.autosave_score is False no handler writes
\* the score file, whatever it does to the counters in memory.
C19_NoWriteWhenAutosaveOff ==
  [][~autosave_score => score_file' = score_file]_vars

\* ------------------------------------------------ more claims on the Game
\* C15: winner is Draw exactly when the board is full and no line is uniform;
\* a ninth move that completes a line makes the mover the winner.
C15_DrawIffFullAndNoLine ==
  /\ winner = "Draw" <=> (Full(board) /\ ~(\E s \in Players : HasLine(board, s)))
  /\ \A r \in Idx, c \in Idx :
       LET res == make_move(G, r, c) IN
         (res.ret = "True" /\ res.g.move_count = 9 /\ HasLine(res.g.board, current))
           => res.g.winner = current
C15_Witness ==
  move_count = 9 /\ winner \in Players /\ HasLine(board, winner) /\ ret = "True"

RECURSIVE UndoTimes(_, _)
\* k calls of undo in a row: the Game after them, and whether all returned True
UndoTimes(g, k) ==
  IF k = 0
    THEN [g |-> g, all |-> TRUE]
    ELSE LET u == undo(g)
             rest == UndoTimes(u.g, k - 1)
         IN [g |-> rest.g, all |-> u.ret = "True" /\ rest.all]

\* C16: after n successful moves since the last reset, n undo calls in a row
\* all return True and leave the state the reset left (empty board, the
\* starting player to move, winner None, move_count 0, empty history); one
\* more undo returns False and changes nothing.
C16_UndoAllReturnsToReset ==
  LET r == UndoTimes(G, ok_calls) IN
    /\ ok_calls \in 0..9
    /\ r.all
    /\ r.g = [board |-> EmptyBoard, current |-> started_by, winner |-> NoneV,
              move_count |-> 0, history |-> <<>>]
    /\ undo(r.g) = [g |-> r.g, ret |-> "False"]
C16_Witness == ok_calls = 9 /\ winner = "Draw" /\ started_by = "O"

\* C17: undo in a state with winner set returns True and reopens the game:
\* winner None, the player of the undone move to move, that move's cell
\* empty, and make_move on that cell succeeds and gives the ended state again.
C17_UndoReopensEndedGame ==
  winner # NoneV =>
    LET m == history[Len(history)]
        u == undo(G)
    IN /\ u.ret = "True"
       /\ u.g.winner = NoneV
       /\ u.g.current = m[3]
       /\ u.g.board[m[1]][m[2]] = ""
       /\ make_move(u.g, m[1], m[2]) = [g |-> G, ret |-> "True"]
C17_Witness ==
  /\ game_counted /\ winner = NoneV /\ x_wins = 1 /\ current = "X"
  /\ make_move(G, 2, 2).g.winner = "X"

Other(p) == IF p = "X" THEN "O" ELSE "X"

\* C20: the players in history alternate, the first being the starting player
\* of the last reset; while winner is None the player to move is the one who
\* did not make the last move (the starting player on an empty history); once
\* winner is set, current is still the player who made the last move.
C20_TurnsAlternate ==
  /\ \A i \in 1..Len(history) :
       history[i][3] = IF i % 2 = 1 THEN started_by ELSE Other(started_by)
  /\ winner = NoneV =>
       current = IF history = <<>> THEN started_by
                 ELSE Other(history[Len(history)][3])
  /\ winner # NoneV => current = history[Len(history)][3]
C20_Witness ==
  /\ started_by = "O" /\ winner = "O" /\ current = "O" /\ Len(history) = 5
  /\ ret = "True"

\* C21: in every reachable state move_count is the length of history and the
\* number of non-empty cells and lies in 0..9, history names each cell at
\* most once, and board[r][c] = p exactly when (r, c, p) is in history.
C21_Bookkeeping ==
  /\ move_count = Len(history)
  /\ move_count = Cardinality({p \in Idx \X Idx : board[p[1]][p[2]] # ""})
  /\ move_count \in 0..9
  /\ \A i \in 1..Len(history), j \in 1..Len(history) :
       (i # j) => <<history[i][1], history[i][2]>> # <<history[j][1], history[j][2]>>
  /\ \A r \in Idx, c \in Idx, p \in Players :
       board[r][c] = p <=> \E i \in 1..Len(history) : history[i] = <<r, c, p>>
C21_Witness ==
  /\ Len(history) = 9 /\ move_count = 9
  /\ Cardinality({p \in Idx \X Idx : board[p[1]][p[2]] # ""}) = 9

\* the values a coordinate takes in the claims on the range check
Coords == (0 - 1)..MaxArg

\* C22: make_move with r or c outside 0..2 raises ValueError and leaves the
\* Game as it was while winner is None; once winner is set the same call
\* returns False, without raising, and leaves the Game as it was.
C22_RangeCheckAfterGameOver ==
  \A r \in Coords, c \in Coords :
    ~(r \in Idx /\ c \in Idx) =>
      make_move(G, r, c) =
        [g |-> G, ret |-> IF winner = NoneV THEN "ValueError" ELSE "False"]
C22_Witness == ret = "ValueError" /\ winner = NoneV /\ move_count = 8

\* C24: get_winning_line returns a line exactly when winner is X or O, the
\* three cells of that line hold the winner's symbol, it returns None while
\* the game is in progress or drawn, and the board never holds a complete X
\* line together with a complete O line.
C24_WinningLineIffWinner ==
  LET line == get_winning_line(board) IN
    /\ line # NoLine <=> winner \in Players
    /\ line # NoLine =>
         /\ Len(line) = 3
         /\ \A i \in 1..3 : board[line[i][1]][line[i][2]] = winner
    /\ winner \in {NoneV, "Draw"} => line = NoLine
    /\ ~(HasLine(board, "X") /\ HasLine(board, "O"))
C24_Witness ==
  /\ winner = "O" /\ move_count = 6
  /\ get_winning_line(board) = <<<<0, 1>>, <<1, 1>>, <<2, 1>>>>

\* C23: every pair the GUI passes to make_move, from a click through
\* cell_bbox or from a key through KEY_TO_CELL, has 0 <= r, c <= 2, so that
\* no such call raises ValueError and no handler ends in _safe's except
\* branch; the 9 keys map one-to-one onto the 9 cells.
C23_GuiMovesInRange ==
  /\ \A k \in Keys :
       /\ KEY_TO_CELL[k] \in Idx \X Idx
       /\ make_move(G, KEY_TO_CELL[k][1], KEY_TO_CELL[k][2]).ret # "ValueError"
  /\ \A k1 \in Keys, k2 \in Keys : KEY_TO_CELL[k1] = KEY_TO_CELL[k2] => k1 = k2
  /\ {KEY_TO_CELL[k] : k \in Keys} = Idx \X Idx
  /\ \A x \in ClickCoords, y \in ClickCoords :
       LET cell == ClickCell(cell_bbox, x, y) IN
         cell # NoCell =>
           /\ cell \in Idx \X Idx
           /\ make_move(G, cell[1], cell[2]).ret # "ValueError"
  /\ exc = "none" /\ logged = 0
C23_Witness ==
  /\ cell_bbox = Bboxes(1, MaxCanvas) /\ winner = "O" /\ move_count = 6
  /\ exc = "none"

\* ------------------------------------------------ claims on the blink timer
\* settings and board are such that _blink_cycle goes on
ShouldBlink == show_highlight /\ get_winning_line(board) # NoLine

C26_OneBlinkTimer ==
  /\ blink_timers <= 1
  /\ blink_timers = 1 <=> _blink_job = "pending"
  /\ \A k \in Keys :
       LET res == make_move(G, KEY_TO_CELL[k][1], KEY_TO_CELL[k][2]) IN
         (_blink_job # "None" /\ res.ret = "True")
           => _start_blink(res.g.board, Blink) = Blink
C26_Witness ==
  /\ blink_timers = 1 /\ _blink_job = "pending"
  /\ game_counted /\ winner \in Players /\ x_wins + o_wins = 2
====
